---- MODULE Spec2Model ----
(***************************************************************************)
(* Capture controller of golf-cam (src/swing_camera.py), its camera        *)
(* backends (src/camera_backends.py) and the HTTP handlers that drive it   *)
(* (src/web_interface.py).                                                 *)
(*                                                                         *)
(* Time is counted in whole seconds by Tick.  The steps of a thread that   *)
(* do not block (a flag assignment, an os.remove) take much less than a    *)
(* second, so Tick waits for them; the blocking calls (Backend.record,     *)
(* Thread.join(timeout=5)) are the only places where seconds pass.         *)
(* Requests arrive at any time, in any order, on any number of handler     *)
(* threads (app.run(threaded=True)).                                       *)
(*                                                                         *)
(* File names carry the second they were created in; the model gives each  *)
(* arm session and each capture thread its own name.                       *)
(***************************************************************************)
EXTENDS Integers, FiniteSets, Sequences, TLC

\* ---------------------------------------------------------------- bounds
MaxArms == 2
MaxCaptures == 2
LmMaxShort == 2
LmMaxLong == 6
\* accepted arm and record requests in one run
MaxCalls == 3
\* calls made on one backend object after its construction
MaxBackendCalls == 4
\* requested sizes tried at each end of the accepted range
CropSpan == 4
\* file-system events the watcher's observer delivers in one run
MaxEvents == 3

\* ------------------------------------------------------------- constants
JoinTimeout == 5
\* the sensor area _apply_sensor_crop centres the crop in
SENSOR_WIDTH == 1440
SENSOR_HEIGHT == 1088
\* the largest size the configuration asks for (the defaults)
DefaultWidth == 1456
DefaultHeight == 1088
\* CodeSyncHandler.sync_delay, in seconds
sync_delay == 1

Workers == 1..MaxArms
CapThreads == 1..MaxCaptures
Formats == {"h264", "mp4"}
LmMaxDurations == {LmMaxShort, LmMaxLong}

\* ------------------------------------------------------------ file names
NoPath == [kind |-> "none", id |-> 0, ext |-> "none"]

TempPath(k, format) ==
    [kind |-> "temp_lm", id |-> k, ext |-> IF format = "h264" THEN "h264" ELSE "mp4"]

SwingPath(kind, k, format) ==
    [kind |-> kind, id |-> k, ext |-> IF format = "h264" THEN "h264" ELSE "mp4"]

\* '.json' appended to the whole file name
with_suffix_json_Appended(p) == [p EXCEPT !.ext = "mp4.json"]

\* Path.with_suffix('.json')
with_suffix_json(p) == [p EXCEPT !.ext = "json"]

\* every backend's record rewrites a .h264 output name to .mp4
NormalizeOutput(p) == IF p.ext = "h264" THEN [p EXCEPT !.ext = "mp4"] ELSE p

\* --------------------------------------------------------------- backend
ProbePi == {"ok", "import_error", "init_error"}
\* `import cv2` raises ImportError ("import_error") or another exception
\* ("import_raises"); cv2.VideoCapture(0) raises ("init_error") or gives a
\* camera that is not opened ("no_camera")
ProbeCv == {"ok", "no_camera", "import_error", "import_raises", "init_error"}

Backends == {"PiCamera2", "OpenCV", "Demo"}

\* DemoBackend.__init__ imports cv2 again and catches ImportError only
DemoBackend_init(cv) == IF cv = "import_raises" THEN "raises" ELSE "Demo"

\* the backend returned, or "raises" when an exception leaves the function
create_camera_backend(force_demo, pi, cv) ==
    IF force_demo THEN DemoBackend_init(cv)
    ELSE IF pi = "ok" THEN "PiCamera2"
    ELSE IF cv = "ok" THEN "OpenCV"
    ELSE DemoBackend_init(cv)

\* the candidates whose constructor or probe create_camera_backend runs,
\* in the order it runs them
ProbesTried(force_demo, pi, cv) ==
    IF force_demo THEN <<"Demo">>
    ELSE IF pi = "ok" THEN <<"PiCamera2">>
    ELSE IF cv = "ok" THEN <<"PiCamera2", "OpenCV">>
    ELSE <<"PiCamera2", "OpenCV", "Demo">>

\* DemoBackend.__init__: cv2 is usable unless importing it fails
DemoHasCv2(cv) == cv # "import_error"

\* the output file exists from the start of record (an encoder or a video
\* writer is opened on it) unless the backend only writes its placeholder
\* after sleeping
CreatesFileAtStart(b, cv2) == b \in {"PiCamera2", "OpenCV"} \/ (b = "Demo" /\ cv2)

\* a record call that received no cancel_event returns when its loop ends:
\* PiCamera2 and the Demo placeholder after `duration` seconds, OpenCV also
\* when a frame read fails, Demo with cv2 when its frames are generated
MayReturnAt(b, cv2, elapsed, duration) ==
    \/ elapsed >= duration
    \/ b = "OpenCV"
    \/ (b = "Demo" /\ cv2)

VARIABLES
    backend, has_cv2, config,
    recording, lm_state, lm_recording_thread, lm_temp_file,
    lm_recording_start_time, lm_cancel_event,
    camera_lock, join_wait,
    worker, cap, files, uploads,
    result, shotInTime, extract_failed, dev, sensor_crop,
    gdrive_meta, deleted, watch

vars == <<backend, has_cv2, config,
          recording, lm_state, lm_recording_thread, lm_temp_file,
          lm_recording_start_time, lm_cancel_event,
          camera_lock, join_wait,
          worker, cap, files, uploads,
          result, shotInTime, extract_failed, dev, sensor_crop,
          gdrive_meta, deleted, watch>>

envVars == <<backend, has_cv2>>
fileVars == <<gdrive_meta, deleted>>
lmVars == <<lm_state, lm_recording_thread, lm_temp_file,
            lm_recording_start_time, lm_cancel_event>>

NoWorker == [pc |-> "none", elapsed |-> 0, path |-> NoPath]
NoCap == [pc |-> "none"]
NoResult == [op |-> "none", status |-> "none", env |-> "none", inTime |-> FALSE,
             extract |-> "none", max_duration |-> 0, since |-> 0]

\* `dev` is the backend object seen from its caller: the last call made on it
\* (`call`), that call's inputs (`args`), the operations the call performed on
\* the camera and writer handles (`ops`), the calls made since construction
\* (`hist`), the handles (self.camera: "None", an "open" or a "closed" object;
\* camera.started; self.writer), the config stored in self.config (`cfg`: the
\* number of the call that stored it, 0 for None) and the record call in
\* progress (`rec`).
NoArgs == [force_demo |-> FALSE, pi |-> "none", cv |-> "none"]
NoRec == [active |-> FALSE, elapsed |-> 0, duration |-> 0, event |-> "none",
          cancel_at |-> 0, path |-> NoPath]
NoDev == [call |-> "none", args |-> NoArgs, ops |-> <<>>, hist |-> <<>>,
          camera |-> "None", started |-> FALSE, writer |-> "None", cfg |-> 0,
          rec |-> NoRec]

\* `sensor_crop` is one _apply_sensor_crop call: the requested size and,
\* once the call has run, the size and the offsets it passed to media-ctl.
NoCrop == [call |-> "none", req_width |-> 0, req_height |-> 0,
           width |-> 0, height |-> 0, crop_x |-> 0, crop_y |-> 0]

\* the development file watcher is not running
NoWatch == [pending_sync |-> FALSE, elapsed |-> 0, main |-> "none",
            observer |-> "none", events |-> 0, unsynced |-> FALSE]

\* `extract_failed` records that some _extract_clip call has returned False.
\* `result` holds the value a controller call returned, in the state right
\* after its return; every other step resets it.
\* `env` is what the environment did during the call (the trimming tool,
\* os.remove, Backend.record or the metadata write raising) or, for a cancel that found the state idle, what the call
\* before it returned; `inTime` is whether shot_detected began before the worker's
\* record call had run for the maximum duration; `extract` is how the
\* trimming process ended; `max_duration` is the returned 'max_duration' (0:
\* the call returns none); `since` is the arm timestamp the returned
\* 'recording_duration' is measured from, time.time() - since (0: the call
\* returned the constant 0, or no duration).
Result(op, status, env) ==
    [op |-> op, status |-> status, env |-> env, inTime |-> FALSE, extract |-> "none",
     max_duration |-> 0, since |-> 0]

Init ==
    /\ \E force_demo \in BOOLEAN, pi \in ProbePi, cv \in ProbeCv :
          /\ backend = create_camera_backend(force_demo, pi, cv)
          /\ backend \in Backends
          /\ has_cv2 = IF backend = "Demo" THEN DemoHasCv2(cv) ELSE FALSE
    /\ \E f \in Formats, d \in LmMaxDurations, u \in BOOLEAN :
          config = [format |-> f, lm_max_recording_duration |-> d, upload_enabled |-> u]
    /\ recording = FALSE
    /\ lm_state = "idle"
    /\ lm_recording_thread = 0
    /\ lm_temp_file = NoPath
    /\ lm_recording_start_time = 0
    /\ lm_cancel_event = FALSE
    /\ camera_lock = "free"
    /\ join_wait = 0
    /\ worker = [w \in Workers |-> NoWorker]
    /\ cap = [t \in CapThreads |-> NoCap]
    /\ files = {}
    /\ uploads = {}
    /\ result = NoResult
    /\ shotInTime = FALSE
    /\ extract_failed = FALSE
    /\ dev = NoDev
    /\ gdrive_meta = {}
    /\ deleted = {}
    /\ watch = NoWatch
    /\ sensor_crop = NoCrop

\* ------------------------------------------------------------- helpers
\* the threads that have not run yet, lowest number first
UnusedWorkers == {w \in Workers : worker[w].pc = "none"}
UnusedCaps == {t \in CapThreads : cap[t].pc = "none"}

NextWorker == CHOOSE w \in UnusedWorkers : \A v \in UnusedWorkers : w <= v
NextCap == CHOOSE t \in UnusedCaps : \A v \in UnusedCaps : t <= v

\* the arm and record requests accepted so far
CallsStarted ==
    Cardinality(Workers \ UnusedWorkers) + Cardinality(CapThreads \ UnusedCaps)

\* Path.exists()
Exists(p) == p \in files

\* Thread.join(timeout=5) returns: no thread, thread finished (pc "done",
\* or "failed" when it went through the except clause), or 5 s waited
JoinReturns ==
    \/ lm_recording_thread = 0
    \/ worker[lm_recording_thread].pc \in {"done", "failed"}
    \/ join_wait >= JoinTimeout

\* ------------------------------------------------- single-shot capture
\* RecordView.post: under camera_lock, test camera.recording and start a
\* thread that runs capture_swing
RecordPost ==
    /\ camera_lock = "free"
    /\ ~recording
    /\ UnusedCaps # {}
    /\ CallsStarted < MaxCalls
    /\ cap' = [cap EXCEPT ![NextCap].pc = "check"]
    /\ result' = NoResult
    /\ UNCHANGED <<envVars, dev, sensor_crop, fileVars, watch, config, extract_failed, uploads, recording, lmVars, camera_lock, join_wait,
                   worker, files, shotInTime>>

\* capture_swing, the output name
capture_output_path(t) == SwingPath("swing", t, config.format)

\* capture_swing, `if self.recording: return None`
capture_swing_check(t) ==
    /\ cap[t].pc = "check"
    /\ cap' = [cap EXCEPT ![t].pc = IF recording THEN "done" ELSE "set"]
    /\ result' = IF recording THEN Result("capture", "busy", "none") ELSE NoResult
    /\ UNCHANGED <<envVars, dev, sensor_crop, fileVars, watch, config, extract_failed, uploads, recording, lmVars, camera_lock, join_wait,
                   worker, files, shotInTime>>

\* capture_swing, `self.recording = True` and the call of backend.record
capture_swing_record(t) ==
    /\ cap[t].pc = "set"
    /\ recording' = TRUE
    /\ cap' = [cap EXCEPT ![t].pc = "record"]
    /\ files' = IF CreatesFileAtStart(backend, has_cv2)
                  THEN files \cup {NormalizeOutput(capture_output_path(t))}
                  ELSE files
    /\ result' = NoResult
    /\ UNCHANGED <<envVars, dev, sensor_crop, fileVars, watch, config, extract_failed, uploads, lmVars, camera_lock, join_wait,
                   worker, shotInTime>>

\* _upload_file running the upload in the caller's thread
UploadStarted_Inline(p) == uploads

\* _upload_file: when upload is enabled the caller starts a daemon thread
\* for the file and goes on
UploadStarted(p) == IF config.upload_enabled THEN uploads \cup {p} ELSE uploads

\* capture_swing after backend.record returned, with the flag cleared only
\* once the metadata is written
capture_swing_return_FlagAfterMetadata(t) ==
    /\ cap[t].pc = "record"
    /\ \E meta \in {"ok", "raises"} :
         LET actual == NormalizeOutput(capture_output_path(t))
             video == IF CreatesFileAtStart(backend, has_cv2) THEN files ELSE files \cup {actual}
         IN  IF meta = "ok" /\ actual \in video
               THEN /\ files' = video \cup {with_suffix_json(actual)}
                    /\ uploads' = UploadStarted(actual)
                    /\ recording' = FALSE
                    /\ result' = Result("capture", "ok", "none")
               ELSE /\ files' = video
                    /\ uploads' = uploads
                    /\ recording' = recording
                    /\ result' = Result("capture", "failed", "meta_raises")
    /\ cap' = [cap EXCEPT ![t].pc = "done"]
    /\ UNCHANGED <<envVars, dev, sensor_crop, fileVars, watch, config, extract_failed, lmVars, camera_lock, join_wait,
                   worker, shotInTime>>

\* capture_swing after backend.record returned: flag cleared, sidecar
\* written, upload started, path returned ("ok"); if _save_metadata
\* raises, the except clause returns None ("failed")
capture_swing_return(t) ==
    /\ cap[t].pc = "record"
    /\ recording' = FALSE
    /\ \E meta \in {"ok", "raises"} :
         LET actual == NormalizeOutput(capture_output_path(t))
             video == IF CreatesFileAtStart(backend, has_cv2) THEN files ELSE files \cup {actual}
         IN  IF meta = "ok" /\ actual \in video
               THEN /\ files' = video \cup {with_suffix_json(actual)}
                    /\ uploads' = UploadStarted(actual)
                    /\ result' = Result("capture", "ok", "none")
               ELSE /\ files' = video
                    /\ uploads' = uploads
                    /\ result' = Result("capture", "failed", "meta_raises")
    /\ cap' = [cap EXCEPT ![t].pc = "done"]
    /\ UNCHANGED <<envVars, dev, sensor_crop, fileVars, watch, config, extract_failed, lmVars, camera_lock, join_wait,
                   worker, shotInTime>>

\* capture_swing when backend.record raises, without the except clause
capture_swing_raise_Uncaught(t) ==
    /\ cap[t].pc = "record"
    /\ recording' = FALSE
    /\ cap' = [cap EXCEPT ![t].pc = "done"]
    /\ result' = Result("capture", "raised", "record_raises")
    /\ UNCHANGED <<envVars, dev, sensor_crop, fileVars, watch, config, extract_failed, uploads, lmVars, camera_lock, join_wait,
                   worker, files, shotInTime>>

\* capture_swing when backend.record raises: the except clause clears the
\* flag and returns None ("failed")
capture_swing_raise(t) ==
    /\ cap[t].pc = "record"
    /\ recording' = FALSE
    /\ cap' = [cap EXCEPT ![t].pc = "done"]
    /\ result' = Result("capture", "failed", "record_raises")
    /\ UNCHANGED <<envVars, dev, sensor_crop, fileVars, watch, config, extract_failed, uploads, lmVars, camera_lock, join_wait,
                   worker, files, shotInTime>>

\* ------------------------------------------------------ launch monitor
\* arm_launch_monitor without the test of the recording flag
ArmAllowed_NoFlagTest == lm_state = "idle"

\* arm_launch_monitor, its two preconditions
ArmAllowed == lm_state = "idle" /\ ~recording

\* arm_launch_monitor, the two early returns
arm_launch_monitor_rejected ==
    /\ camera_lock = "free"
    /\ ~ArmAllowed
    /\ result' = Result("arm", IF lm_state # "idle" THEN "error_state" ELSE "error_busy", "none")
    /\ UNCHANGED <<envVars, dev, sensor_crop, fileVars, watch, config, extract_failed, uploads, recording, lmVars, camera_lock, join_wait,
                   worker, cap, files, shotInTime>>

\* arm_launch_monitor, the accepted call
arm_launch_monitor ==
    /\ camera_lock = "free"
    /\ ArmAllowed
    /\ UnusedWorkers # {}
    /\ CallsStarted < MaxCalls
    /\ LET k == NextWorker IN
         /\ lm_temp_file' = TempPath(k, config.format)
         /\ lm_state' = "armed"
         /\ lm_recording_start_time' = k
         /\ lm_cancel_event' = FALSE
         /\ lm_recording_thread' = k
         /\ worker' = [worker EXCEPT ![k] = [pc |-> "start", elapsed |-> 0, path |-> NoPath]]
    /\ result' = [Result("arm", "armed", "none")
                    EXCEPT !.max_duration = config.lm_max_recording_duration]
    /\ UNCHANGED <<envVars, dev, sensor_crop, fileVars, watch, config, extract_failed, uploads, recording, camera_lock, join_wait,
                   cap, files, shotInTime>>

\* shot_detected raising the cancellation signal before its state test
shot_detected_rejected_SignalsFirst ==
    /\ camera_lock = "free"
    /\ lm_state # "armed"
    /\ lm_cancel_event' = TRUE
    /\ result' = Result("shot", "error_not_armed", "none")
    /\ UNCHANGED <<envVars, dev, sensor_crop, fileVars, watch, config, extract_failed, uploads, recording, lm_state, lm_recording_thread,
                   lm_temp_file, lm_recording_start_time, camera_lock, join_wait,
                   worker, cap, files, shotInTime>>

\* shot_detected, the early return
shot_detected_rejected ==
    /\ camera_lock = "free"
    /\ lm_state # "armed"
    /\ result' = Result("shot", "error_not_armed", "none")
    /\ UNCHANGED <<envVars, dev, sensor_crop, fileVars, watch, config, extract_failed, uploads, recording, lmVars, camera_lock, join_wait,
                   worker, cap, files, shotInTime>>

\* shot_detected up to the join: state PROCESSING, cancel event set
shot_detected_begin ==
    /\ camera_lock = "free"
    /\ lm_state = "armed"
    /\ lm_state' = "processing"
    /\ lm_cancel_event' = TRUE
    /\ camera_lock' = "shot"
    /\ join_wait' = 0
    /\ shotInTime' = /\ lm_recording_thread # 0
                     /\ worker[lm_recording_thread].pc \in {"start", "record"}
                     /\ worker[lm_recording_thread].elapsed < config.lm_max_recording_duration
    /\ result' = NoResult
    /\ UNCHANGED <<envVars, dev, sensor_crop, fileVars, watch, config, extract_failed, uploads, recording, lm_recording_thread, lm_temp_file,
                   lm_recording_start_time, worker, cap, files>>

\* _extract_clip.  The trimming tool works, exits nonzero ("fails"), runs
\* into the 30 s timeout ("hangs") or cannot be launched ("missing"); it
\* exits with status zero only if it works and its input exists.
ExtractOutcomes == {"works", "fails", "hangs", "missing"}

ExitsZero(tool, input_path) == tool = "works" /\ Exists(input_path)

\* how subprocess.run ended
ExtractEnd(tool, input_path) ==
    IF ExitsZero(tool, input_path) THEN "zero"
    ELSE IF tool = "hangs" THEN "timeout"
    ELSE IF tool = "missing" THEN "launch_failure"
    ELSE "nonzero"

\* the return value: True after a zero exit, unless os.remove(input_path)
\* raises, which the last except clause turns into False
ExtractSucceeds(tool, rm, input_path) == ExitsZero(tool, input_path) /\ rm = "ok"

\* _extract_clip removing the input whatever the exit code
ExtractFiles_RemovesOnFailure(tool, rm, input_path, output_path) ==
    IF ExitsZero(tool, input_path)
      THEN (IF rm = "ok" THEN files \ {input_path} ELSE files) \cup {output_path}
      ELSE files \ {input_path}

\* after a zero exit the output exists and the input is removed
ExtractFiles(tool, rm, input_path, output_path) ==
    IF ExitsZero(tool, input_path)
      THEN (IF rm = "ok" THEN files \ {input_path} ELSE files) \cup {output_path}
      ELSE files

\* shot_detected after the join, without the reset in the except clause
shot_detected_finish_NoResetOnException ==
    /\ camera_lock = "shot"
    /\ JoinReturns
    /\ \E tool \in ExtractOutcomes, rm \in {"ok", "raises"}, meta \in {"ok", "raises"} :
         LET output_path == SwingPath("swing_lm", lm_recording_thread, config.format)
             success == ExtractSucceeds(tool, rm, lm_temp_file)
             extracted == ExtractFiles(tool, rm, lm_temp_file, output_path)
         IN  /\ files' = IF success /\ meta = "ok"
                           THEN extracted \cup {with_suffix_json(output_path)}
                           ELSE extracted
             /\ uploads' = IF success /\ meta = "ok"
                             THEN UploadStarted(output_path)
                             ELSE uploads
             /\ result' = [op |-> "shot",
                            status |-> IF ~success THEN "error_extract"
                                       ELSE IF meta = "ok" THEN "success"
                                       ELSE "error_exception",
                            env |-> IF tool = "works" /\ rm = "ok" THEN "works" ELSE "broken",
                            inTime |-> shotInTime,
                            extract |-> ExtractEnd(tool, lm_temp_file),
                            max_duration |-> 0, since |-> 0]
             /\ extract_failed' = (extract_failed \/ ~success)
             /\ IF success /\ meta = "raises"
                  THEN UNCHANGED <<lm_state, lm_temp_file, lm_recording_start_time>>
                  ELSE /\ lm_state' = "idle"
                       /\ lm_temp_file' = NoPath
                       /\ lm_recording_start_time' = 0
    /\ camera_lock' = "free"
    /\ join_wait' = 0
    /\ shotInTime' = FALSE
    /\ UNCHANGED <<envVars, dev, sensor_crop, fileVars, watch, config, recording, lm_recording_thread, lm_cancel_event,
                   worker, cap>>

\* shot_detected after the join: extraction, metadata, reset
shot_detected_finish ==
    /\ camera_lock = "shot"
    /\ JoinReturns
    /\ \E tool \in ExtractOutcomes, rm \in {"ok", "raises"}, meta \in {"ok", "raises"} :
         LET output_path == SwingPath("swing_lm", lm_recording_thread, config.format)
             success == ExtractSucceeds(tool, rm, lm_temp_file)
             extracted == ExtractFiles(tool, rm, lm_temp_file, output_path)
         IN  /\ files' = IF success /\ meta = "ok"
                           THEN extracted \cup {with_suffix_json(output_path)}
                           ELSE extracted
             /\ uploads' = IF success /\ meta = "ok"
                             THEN UploadStarted(output_path)
                             ELSE uploads
             /\ result' = [op |-> "shot",
                            status |-> IF ~success THEN "error_extract"
                                       ELSE IF meta = "ok" THEN "success"
                                       ELSE "error_exception",
                            env |-> IF tool = "works" /\ rm = "ok" THEN "works" ELSE "broken",
                            inTime |-> shotInTime,
                            extract |-> ExtractEnd(tool, lm_temp_file),
                            max_duration |-> 0, since |-> 0]
             /\ extract_failed' = (extract_failed \/ ~success)
    /\ lm_state' = "idle"
    /\ lm_temp_file' = NoPath
    /\ lm_recording_start_time' = 0
    /\ camera_lock' = "free"
    /\ join_wait' = 0
    /\ shotInTime' = FALSE
    /\ UNCHANGED <<envVars, dev, sensor_crop, fileVars, watch, config, recording, lm_recording_thread, lm_cancel_event,
                   worker, cap>>

\* get_lm_status, called by LMStatusView.get under camera_lock
get_lm_status ==
    /\ camera_lock = "free"
    /\ result' = [Result("status", lm_state, "none")
                    EXCEPT !.since = lm_recording_start_time,
                           !.max_duration = config.lm_max_recording_duration]
    /\ UNCHANGED <<envVars, dev, sensor_crop, fileVars, watch, config, extract_failed, uploads, recording, lmVars, camera_lock, join_wait,
                   worker, cap, files, shotInTime>>

\* cancel_launch_monitor, the early return
cancel_launch_monitor_idle ==
    /\ camera_lock = "free"
    /\ lm_state = "idle"
    /\ result' = Result("cancel", "already_idle",
                         IF result.op # "cancel" THEN "none"
                         ELSE IF result.status = "cancelled" THEN "after_cancelled"
                         ELSE "after_already_idle")
    /\ UNCHANGED <<envVars, dev, sensor_crop, fileVars, watch, config, extract_failed, uploads, recording, lmVars, camera_lock, join_wait,
                   worker, cap, files, shotInTime>>

\* cancel_launch_monitor up to the join, without `self.lm_state = IDLE`
cancel_launch_monitor_begin_NoIdle ==
    /\ camera_lock = "free"
    /\ lm_state # "idle"
    /\ lm_cancel_event' = TRUE
    /\ camera_lock' = "cancel"
    /\ join_wait' = 0
    /\ result' = NoResult
    /\ UNCHANGED <<envVars, dev, sensor_crop, fileVars, watch, config, extract_failed, uploads, recording, lm_state, lm_recording_thread, lm_temp_file,
                   lm_recording_start_time, worker, cap, files, shotInTime>>

\* cancel_launch_monitor up to the join: cancel event set, state IDLE
cancel_launch_monitor_begin ==
    /\ camera_lock = "free"
    /\ lm_state # "idle"
    /\ lm_cancel_event' = TRUE
    /\ lm_state' = "idle"
    /\ camera_lock' = "cancel"
    /\ join_wait' = 0
    /\ result' = NoResult
    /\ UNCHANGED <<envVars, dev, sensor_crop, fileVars, watch, config, extract_failed, uploads, recording, lm_recording_thread, lm_temp_file,
                   lm_recording_start_time, worker, cap, files, shotInTime>>

\* cancel_launch_monitor after the join, with os.remove outside a try block
cancel_launch_monitor_finish_RemoveUncaught ==
    /\ camera_lock = "cancel"
    /\ JoinReturns
    /\ \E rm \in {"ok", "raises"} :
         LET removing == lm_temp_file # NoPath /\ Exists(lm_temp_file)
         IN  IF removing /\ rm = "raises"
               THEN /\ result' = Result("cancel", "raised", "rm_raises")
                    /\ UNCHANGED <<files, lm_temp_file, lm_recording_start_time>>
               ELSE /\ files' = files \ {lm_temp_file}
                    /\ result' = Result("cancel", "cancelled", "none")
                    /\ lm_temp_file' = NoPath
                    /\ lm_recording_start_time' = 0
    /\ camera_lock' = "free"
    /\ join_wait' = 0
    /\ UNCHANGED <<envVars, dev, sensor_crop, fileVars, watch, config, extract_failed, uploads, recording, lm_state, lm_recording_thread,
                   lm_cancel_event, worker, cap, shotInTime>>

\* cancel_launch_monitor after the join: temp file removed if it exists
cancel_launch_monitor_finish ==
    /\ camera_lock = "cancel"
    /\ JoinReturns
    /\ \E rm \in {"ok", "raises"} :
         LET removing == lm_temp_file # NoPath /\ Exists(lm_temp_file)
         IN  /\ files' = IF removing /\ rm = "ok" THEN files \ {lm_temp_file} ELSE files
             /\ result' = Result("cancel", "cancelled",
                                  IF removing /\ rm = "raises" THEN "rm_raises" ELSE "none")
    /\ lm_temp_file' = NoPath
    /\ lm_recording_start_time' = 0
    /\ camera_lock' = "free"
    /\ join_wait' = 0
    /\ UNCHANGED <<envVars, dev, sensor_crop, fileVars, watch, config, extract_failed, uploads, recording, lm_state, lm_recording_thread,
                   lm_cancel_event, worker, cap, shotInTime>>

\* ------------------------------------------- _lm_continuous_record worker
\* `self.recording = True` and the call backend.record(self.lm_temp_file,
\* max_duration): no cancel_event is passed
lm_record_start(w) ==
    /\ worker[w].pc = "start"
    /\ recording' = TRUE
    /\ worker' = [worker EXCEPT ![w] = [pc |-> "record", elapsed |-> 0, path |-> lm_temp_file]]
    /\ files' = IF CreatesFileAtStart(backend, has_cv2)
                  THEN files \cup {NormalizeOutput(lm_temp_file)}
                  ELSE files
    /\ result' = NoResult
    /\ UNCHANGED <<envVars, dev, sensor_crop, fileVars, watch, config, extract_failed, uploads, lmVars, camera_lock, join_wait,
                   cap, shotInTime>>

\* backend.record returns its (normalised) output path
lm_record_return(w) ==
    /\ worker[w].pc = "record"
    /\ MayReturnAt(backend, has_cv2, worker[w].elapsed, config.lm_max_recording_duration)
    /\ worker' = [worker EXCEPT ![w].pc = "returned"]
    /\ files' = IF CreatesFileAtStart(backend, has_cv2)
                  THEN files
                  ELSE files \cup {NormalizeOutput(worker[w].path)}
    /\ result' = NoResult
    /\ UNCHANGED <<envVars, dev, sensor_crop, fileVars, watch, config, extract_failed, uploads, recording, lmVars, camera_lock, join_wait,
                   cap, shotInTime>>

\* backend.record raises: the finally clause, then the outer except clause
lm_record_raise(w) ==
    /\ worker[w].pc = "record"
    /\ recording' = FALSE
    /\ lm_state' = "idle"
    /\ worker' = [worker EXCEPT ![w].pc = "failed", ![w].elapsed = 0]
    /\ result' = NoResult
    /\ UNCHANGED <<envVars, dev, sensor_crop, fileVars, watch, config, extract_failed, uploads, lm_recording_thread, lm_temp_file,
                   lm_recording_start_time, lm_cancel_event, camera_lock, join_wait,
                   cap, files, shotInTime>>

\* `if self.lm_cancel_event.is_set()`
lm_check_cancel(w) ==
    /\ worker[w].pc = "returned"
    /\ worker' = [worker EXCEPT ![w].pc = IF lm_cancel_event THEN "finally" ELSE "timeout"]
    /\ result' = NoResult
    /\ UNCHANGED <<envVars, dev, sensor_crop, fileVars, watch, config, extract_failed, uploads, recording, lmVars, camera_lock, join_wait,
                   cap, files, shotInTime>>

\* the timeout branch: state IDLE, temp file removed if it exists, fields
\* cleared; if os.remove raises, the clearing is skipped and the except
\* clause runs
lm_timeout_cleanup(w) ==
    /\ worker[w].pc = "timeout"
    /\ lm_state' = "idle"
    /\ \E rm \in {"ok", "raises"} :
         IF lm_temp_file # NoPath /\ Exists(lm_temp_file) /\ rm = "raises"
           THEN /\ recording' = FALSE
                /\ worker' = [worker EXCEPT ![w].pc = "failed", ![w].elapsed = 0]
                /\ UNCHANGED <<files, lm_temp_file, lm_recording_start_time>>
           ELSE /\ files' = files \ {lm_temp_file}
                /\ lm_temp_file' = NoPath
                /\ lm_recording_start_time' = 0
                /\ worker' = [worker EXCEPT ![w].pc = "finally"]
                /\ UNCHANGED recording
    /\ result' = NoResult
    /\ UNCHANGED <<envVars, dev, sensor_crop, fileVars, watch, config, extract_failed, uploads, lm_recording_thread, lm_cancel_event,
                   camera_lock, join_wait, cap, shotInTime>>

\* `finally: self.recording = False`
lm_finally(w) ==
    /\ worker[w].pc = "finally"
    /\ recording' = FALSE
    /\ worker' = [worker EXCEPT ![w].pc = "done", ![w].elapsed = 0]
    /\ result' = NoResult
    /\ UNCHANGED <<envVars, dev, sensor_crop, fileVars, watch, config, extract_failed, uploads, lmVars, camera_lock, join_wait,
                   cap, files, shotInTime>>

\* --------------------------------------------------------------- upload
\* _upload_worker: the upload ends, or fails and the except clause logs it;
\* an upload that never ends never takes this step
upload_worker(p) ==
    /\ p \in uploads
    /\ \E outcome \in {"ok", "raises"} : uploads' = uploads \ {p}
    /\ result' = NoResult
    /\ UNCHANGED <<envVars, dev, sensor_crop, fileVars, watch, config, extract_failed, recording, lmVars, camera_lock, join_wait,
                   worker, cap, files, shotInTime>>

\* the files an upload thread can have been started for
UploadPaths ==
    {NormalizeOutput(SwingPath("swing", t, f)) : t \in CapThreads, f \in Formats}
      \cup {SwingPath("swing_lm", w, f) : w \in Workers, f \in Formats}

\* ----------------------------------------------------------- recordings
\* _upload_to_gdrive once the video is uploaded: the sidecar is there, so it
\* is read and written back with the ids of the uploaded video, and the
\* upload of the sidecar begins
upload_to_gdrive_update(p) ==
    /\ p \in uploads
    /\ Exists(with_suffix_json(p))
    /\ uploads' = uploads \ {p}
    /\ gdrive_meta' = gdrive_meta \cup {p}
    /\ result' = NoResult
    /\ UNCHANGED <<envVars, dev, sensor_crop, deleted, watch, config, extract_failed,
                   recording, lmVars, camera_lock, join_wait, worker, cap,
                   files, shotInTime>>

\* _upload_to_gdrive once the sidecar is uploaded: open(metadata_path, 'w')
\* writes the sidecar again, creating it when it is gone; when the upload
\* of the sidecar raises, the except clause of _upload_worker logs it
upload_to_gdrive_rewrite(p) ==
    /\ p \in gdrive_meta
    /\ gdrive_meta' = gdrive_meta \ {p}
    /\ \E outcome \in {"ok", "raises"} :
         files' = IF outcome = "ok" THEN files \cup {with_suffix_json(p)} ELSE files
    /\ result' = NoResult
    /\ UNCHANGED <<envVars, dev, sensor_crop, deleted, watch, config, extract_failed,
                   recording, lmVars, camera_lock, join_wait, worker, cap,
                   uploads, shotInTime>>

\* delete_recording of a file that is there: the remote copies are deleted
\* when there are any, a failure of that is logged, then the video and the
\* sidecar are removed; no lock is taken
delete_recording(p) ==
    /\ Exists(p)
    /\ \E remote \in {"none", "ok", "raises"} : result' = Result("delete", "ok", remote)
    /\ files' = files \ {p, with_suffix_json(p)}
    /\ deleted' = deleted \cup {p}
    /\ UNCHANGED <<envVars, dev, sensor_crop, gdrive_meta, watch, config, extract_failed,
                   recording, lmVars, camera_lock, join_wait, worker, cap,
                   uploads, shotInTime>>

\* delete_recording of a file that is not there raises FileNotFoundError
delete_recording_missing(p) ==
    /\ ~Exists(p)
    /\ result' = Result("delete", "raises", "FileNotFoundError")
    /\ UNCHANGED <<envVars, dev, sensor_crop, fileVars, watch, config, extract_failed,
                   recording, lmVars, camera_lock, join_wait, worker, cap,
                   files, uploads, shotInTime>>

\* ------------------------------------------------------ reconfiguration
\* ConfigView.post / PresetView.post: under camera_lock, backend.cleanup(),
\* _load_config, _setup_camera, start.  The reloaded file keeps the output
\* format and the launch-monitor duration.
reconfigure_begin ==
    /\ camera_lock = "free"
    /\ camera_lock' = "reconfig"
    /\ result' = NoResult
    /\ UNCHANGED <<envVars, dev, sensor_crop, fileVars, watch, config, extract_failed, uploads, recording, lmVars, join_wait,
                   worker, cap, files, shotInTime>>

reconfigure_end ==
    /\ camera_lock = "reconfig"
    /\ camera_lock' = "free"
    /\ result' = NoResult
    /\ UNCHANGED <<envVars, dev, sensor_crop, fileVars, watch, config, extract_failed, uploads, recording, lmVars, join_wait,
                   worker, cap, files, shotInTime>>

\* ------------------------------------------------------------------ time
InstantPcs == {"start", "returned", "timeout", "finally"}

RecordOverdue(w) ==
    /\ worker[w].pc = "record"
    /\ worker[w].elapsed >= config.lm_max_recording_duration
    /\ ~(backend = "Demo" /\ has_cv2)

Joining == camera_lock \in {"shot", "cancel"}

\* time passes, but not for the timeout of a join
Tick_NoJoinClock ==
    /\ \A w \in Workers : worker[w].pc \notin InstantPcs /\ ~RecordOverdue(w)
    /\ \A t \in CapThreads : cap[t].pc \notin {"check", "set"}
    /\ ~(Joining /\ JoinReturns)
    /\ \/ Joining
       \/ \E w \in Workers : worker[w].pc = "record"
                             /\ worker[w].elapsed < config.lm_max_recording_duration
    /\ worker' = [w \in Workers |->
                    IF worker[w].pc = "record"
                       /\ worker[w].elapsed < config.lm_max_recording_duration
                      THEN [worker[w] EXCEPT !.elapsed = @ + 1]
                      ELSE worker[w]]
    /\ join_wait' = join_wait
    /\ result' = NoResult
    /\ UNCHANGED <<envVars, dev, sensor_crop, fileVars, watch, config, extract_failed, uploads, recording, lmVars, camera_lock,
                   cap, files, shotInTime>>

Tick ==
    /\ \A w \in Workers : worker[w].pc \notin InstantPcs /\ ~RecordOverdue(w)
    /\ \A t \in CapThreads : cap[t].pc \notin {"check", "set"}
    /\ ~(Joining /\ JoinReturns)
    /\ \/ Joining
       \/ \E w \in Workers : worker[w].pc = "record"
                             /\ worker[w].elapsed < config.lm_max_recording_duration
    /\ worker' = [w \in Workers |->
                    IF worker[w].pc = "record"
                       /\ worker[w].elapsed < config.lm_max_recording_duration
                      THEN [worker[w] EXCEPT !.elapsed = @ + 1]
                      ELSE worker[w]]
    /\ join_wait' = IF Joining THEN join_wait + 1 ELSE join_wait
    /\ result' = NoResult
    /\ UNCHANGED <<envVars, dev, sensor_crop, fileVars, watch, config, extract_failed, uploads, recording, lmVars, camera_lock,
                   cap, files, shotInTime>>

\* ------------------------------------------------- the backend object
\* The backend on its own: create_camera_backend, then the calls of the
\* CameraBackend interface in the order a caller may make them, with a
\* second thread that sets the cancel event of a record call in progress.

ctlVars == <<config, recording, lmVars, camera_lock, join_wait, worker, cap,
             uploads, result, shotInTime, extract_failed, sensor_crop,
             fileVars, watch>>

\* setup has returned, and since then cleanup has not been called and no
\* setup has raised
Configured ==
    \E i \in 1..Len(dev.hist) :
        /\ dev.hist[i] = "setup"
        /\ \A j \in (i + 1)..Len(dev.hist) : dev.hist[j] \notin {"cleanup", "setup_raises"}

\* setup and start have been called and cleanup has not been called since
Started ==
    /\ Configured
    /\ \E i \in 1..Len(dev.hist) :
        /\ dev.hist[i] = "start"
        /\ \A j \in (i + 1)..Len(dev.hist) : dev.hist[j] # "cleanup"

\* a backend exists and no call on it is in progress
CallAllowed ==
    /\ backend \in Backends
    /\ ~dev.rec.active
    /\ Len(dev.hist) < MaxBackendCalls

\* `dev` after a call `name` that performed the handle operations `ops`
Called(name, ops) ==
    [dev EXCEPT !.call = name, !.args = NoArgs, !.ops = ops, !.hist = Append(@, name)]

\* PiCamera2Backend: `if self.camera: if self.camera.started: stop(); close()`
CloseOps ==
    IF dev.camera = "None" THEN <<>>
    ELSE (IF dev.started THEN <<"camera.stop">> ELSE <<>>) \o <<"camera.close">>

\* the record loops of PiCamera2Backend and OpenCVBackend test cancel_event
\* on every turn; DemoBackend.record never reads it
PollsCancel(b) == b \in {"PiCamera2", "OpenCV"}

backend_create ==
    /\ backend = "none"
    /\ \E force_demo \in BOOLEAN, pi \in ProbePi, cv \in ProbeCv :
         /\ backend' = create_camera_backend(force_demo, pi, cv)
         /\ has_cv2' = (backend' = "Demo" /\ DemoHasCv2(cv))
         /\ dev' = [dev EXCEPT !.call = "create",
                               !.args = [force_demo |-> force_demo, pi |-> pi, cv |-> cv],
                               !.ops = ProbesTried(force_demo, pi, cv)]
    /\ UNCHANGED <<files, ctlVars>>

backend_setup ==
    /\ CallAllowed
    /\ dev' = CASE backend = "PiCamera2" ->
                     [Called("setup", CloseOps \o <<"Picamera2()">>)
                        EXCEPT !.camera = "open", !.started = FALSE,
                               !.cfg = Len(dev.hist) + 1]
                [] backend = "OpenCV" ->
                     [Called("setup", <<"VideoCapture(0)">>)
                        EXCEPT !.camera = "open", !.cfg = Len(dev.hist) + 1]
                [] OTHER -> [Called("setup", <<>>) EXCEPT !.cfg = Len(dev.hist) + 1]
    /\ UNCHANGED <<envVars, files, ctlVars>>

\* setup raises: while the camera object is created ("create": the old
\* handle is kept by OpenCV, already closed and dropped by PiCamera2) or
\* while the new camera is configured ("configure"); self.config was
\* assigned by the first statement
backend_setup_raise ==
    /\ CallAllowed
    /\ backend \in {"PiCamera2", "OpenCV"}
    /\ \E stage \in {"create", "configure"} :
         dev' = CASE backend = "PiCamera2" ->
                      [Called("setup_raises", CloseOps \o <<"Picamera2()">>)
                         EXCEPT !.camera = IF stage = "create" THEN "None" ELSE "open",
                                !.started = FALSE,
                                !.cfg = Len(dev.hist) + 1]
                 [] OTHER ->
                      [Called("setup_raises", <<"VideoCapture(0)">>)
                         EXCEPT !.camera = IF stage = "create" THEN dev.camera ELSE "open",
                                !.cfg = Len(dev.hist) + 1]
    /\ UNCHANGED <<envVars, files, ctlVars>>

\* start without the test of camera.started
backend_start_NoStartedTest ==
    /\ CallAllowed
    /\ Configured
    /\ dev' = CASE backend = "PiCamera2" /\ dev.camera # "None" ->
                     [Called("start", <<"camera.start", "camera.set_controls">>)
                        EXCEPT !.started = TRUE]
                [] backend = "OpenCV" /\ dev.camera = "closed" ->
                     [Called("start", <<"camera.open">>) EXCEPT !.camera = "open"]
                [] OTHER -> Called("start", <<>>)
    /\ UNCHANGED <<envVars, files, ctlVars>>

backend_start ==
    /\ CallAllowed
    /\ Configured
    /\ dev' = CASE backend = "PiCamera2" /\ dev.camera # "None" /\ ~dev.started ->
                     [Called("start", <<"camera.start", "camera.set_controls">>)
                        EXCEPT !.started = TRUE]
                [] backend = "OpenCV" /\ dev.camera = "closed" ->
                     [Called("start", <<"camera.open">>) EXCEPT !.camera = "open"]
                [] OTHER -> Called("start", <<>>)
    /\ UNCHANGED <<envVars, files, ctlVars>>

backend_stop ==
    /\ CallAllowed
    /\ Configured
    /\ dev' = CASE backend = "PiCamera2" /\ dev.camera # "None" /\ dev.started ->
                     [Called("stop", <<"camera.stop">>) EXCEPT !.started = FALSE]
                [] backend = "OpenCV" /\ dev.writer # "None" ->
                     [Called("stop", <<"writer.release">>) EXCEPT !.writer = "None"]
                [] OTHER -> Called("stop", <<>>)
    /\ UNCHANGED <<envVars, files, ctlVars>>

\* record up to the start of its loop; the caller passes no cancel_event
\* ("none") or one that is clear
backend_record_begin ==
    /\ CallAllowed
    /\ Started
    /\ \E event \in {"none", "clear"} :
         LET output == NormalizeOutput(SwingPath("swing", Len(dev.hist) + 1, config.format))
             rec == [active |-> TRUE, elapsed |-> 0,
                     duration |-> config.lm_max_recording_duration,
                     event |-> event, cancel_at |-> 0, path |-> output]
         IN  /\ dev' = CASE backend = "PiCamera2" ->
                              [Called("record", <<"camera.set_controls", "camera.start_recording">>)
                                 EXCEPT !.rec = rec]
                         [] backend = "OpenCV" ->
                              [Called("record", <<"VideoWriter()">>)
                                 EXCEPT !.rec = rec, !.writer = "open"]
                         [] OTHER -> [Called("record", <<>>) EXCEPT !.rec = rec]
             /\ files' = IF CreatesFileAtStart(backend, has_cv2)
                           THEN files \cup {output}
                           ELSE files
    /\ UNCHANGED <<envVars, ctlVars>>

\* another thread sets the event while record is running
cancel_event_set ==
    /\ dev.rec.active
    /\ dev.rec.event = "clear"
    /\ dev' = [dev EXCEPT !.rec.event = "set", !.rec.cancel_at = dev.rec.elapsed]
    /\ UNCHANGED <<envVars, files, ctlVars>>

\* a second passes inside record; a loop that sees the event set leaves
\* within 100 ms
backend_tick ==
    /\ dev.rec.active
    /\ dev.rec.elapsed < dev.rec.duration
    /\ ~(dev.rec.event = "set" /\ PollsCancel(backend))
    /\ dev' = [dev EXCEPT !.rec.elapsed = @ + 1]
    /\ UNCHANGED <<envVars, files, ctlVars>>

\* record leaves its loop, closes its output and returns
backend_record_return ==
    /\ dev.rec.active
    /\ \/ MayReturnAt(backend, has_cv2, dev.rec.elapsed, dev.rec.duration)
       \/ dev.rec.event = "set" /\ PollsCancel(backend)
    /\ dev' = CASE backend = "PiCamera2" ->
                     [dev EXCEPT !.rec.active = FALSE,
                                 !.ops = @ \o <<"camera.stop_recording">>]
                [] backend = "OpenCV" ->
                     [dev EXCEPT !.rec.active = FALSE, !.writer = "None",
                                 !.ops = @ \o <<"writer.release">>]
                [] OTHER -> [dev EXCEPT !.rec.active = FALSE]
    /\ files' = files \cup {dev.rec.path}
    /\ UNCHANGED <<envVars, ctlVars>>

backend_cleanup ==
    /\ CallAllowed
    /\ dev' = CASE backend = "PiCamera2" ->
                     [Called("cleanup", CloseOps)
                        EXCEPT !.camera = IF dev.camera = "None" THEN "None" ELSE "closed",
                               !.started = FALSE]
                [] backend = "OpenCV" ->
                     [Called("cleanup",
                             (IF dev.writer # "None" THEN <<"writer.release">> ELSE <<>>)
                             \o (IF dev.camera # "None" THEN <<"camera.release">> ELSE <<>>))
                        EXCEPT !.camera = IF dev.camera = "None" THEN "None" ELSE "closed"]
                [] OTHER -> Called("cleanup", <<>>)
    /\ UNCHANGED <<envVars, files, ctlVars>>

\* the module is loaded and create_camera_backend has not been called
InitBackend ==
    /\ backend = "none"
    /\ has_cv2 = FALSE
    /\ \E f \in Formats, d \in LmMaxDurations :
          config = [format |-> f, lm_max_recording_duration |-> d, upload_enabled |-> FALSE]
    /\ recording = FALSE
    /\ lm_state = "idle"
    /\ lm_recording_thread = 0
    /\ lm_temp_file = NoPath
    /\ lm_recording_start_time = 0
    /\ lm_cancel_event = FALSE
    /\ camera_lock = "free"
    /\ join_wait = 0
    /\ worker = [w \in Workers |-> NoWorker]
    /\ cap = [t \in CapThreads |-> NoCap]
    /\ files = {}
    /\ uploads = {}
    /\ result = NoResult
    /\ shotInTime = FALSE
    /\ extract_failed = FALSE
    /\ dev = NoDev
    /\ gdrive_meta = {}
    /\ deleted = {}
    /\ watch = NoWatch
    /\ sensor_crop = NoCrop

\* ------------------------------------------------------- sensor crop
\* `n + (n % 2)`
EvenUp(n) == n + (n % 2)

\* `(sensor - size) // 2`, then `c - (c % 2)`; // and % round towards
\* minus infinity, as \div and % do
CropOffset(sensor, size) ==
    LET c == (sensor - size) \div 2 IN c - (c % 2)

\* the sizes tried: the smallest ones and those up to the default size
CropWidths == (1..CropSpan) \cup ((SENSOR_WIDTH - CropSpan)..DefaultWidth)
CropHeights == (1..CropSpan) \cup ((SENSOR_HEIGHT - CropSpan)..DefaultHeight)

\* _apply_sensor_crop up to the media-ctl command it builds
apply_sensor_crop ==
    /\ sensor_crop.call = "pending"
    /\ LET width == EvenUp(sensor_crop.req_width)
           height == EvenUp(sensor_crop.req_height)
       IN  sensor_crop' = [sensor_crop EXCEPT
                             !.call = "done",
                             !.width = width,
                             !.height = height,
                             !.crop_x = CropOffset(SENSOR_WIDTH, width),
                             !.crop_y = CropOffset(SENSOR_HEIGHT, height)]
    /\ UNCHANGED <<envVars, dev, files, config, recording, lmVars, camera_lock,
                   join_wait, worker, cap, uploads, result, shotInTime,
                   extract_failed, fileVars, watch>>

\* PiCamera2Backend.setup is about to call _apply_sensor_crop with the
\* configured width and height
InitCrop ==
    /\ backend = "PiCamera2"
    /\ has_cv2 = FALSE
    /\ config = [format |-> "mp4", lm_max_recording_duration |-> LmMaxShort,
                 upload_enabled |-> FALSE]
    /\ recording = FALSE
    /\ lm_state = "idle"
    /\ lm_recording_thread = 0
    /\ lm_temp_file = NoPath
    /\ lm_recording_start_time = 0
    /\ lm_cancel_event = FALSE
    /\ camera_lock = "free"
    /\ join_wait = 0
    /\ worker = [w \in Workers |-> NoWorker]
    /\ cap = [t \in CapThreads |-> NoCap]
    /\ files = {}
    /\ uploads = {}
    /\ result = NoResult
    /\ shotInTime = FALSE
    /\ extract_failed = FALSE
    /\ dev = NoDev
    /\ gdrive_meta = {}
    /\ deleted = {}
    /\ watch = NoWatch
    /\ \E w \in CropWidths, h \in CropHeights :
          sensor_crop = [NoCrop EXCEPT !.call = "pending", !.req_width = w,
                                       !.req_height = h]

\* ------------------------------------------------------ dev-watch.py
\* `watch.elapsed` is time.time() - last_sync counted up to sync_delay,
\* `watch.main` and `watch.observer` are where the main loop and the
\* observer thread are, `watch.events` counts the events delivered, and
\* `watch.unsynced` records that an event passed the filter and no rsync
\* has been started since.
appVars == <<envVars, dev, sensor_crop, fileVars, files, config, recording,
             lmVars, camera_lock, join_wait, worker, cap, uploads, result,
             shotInTime, extract_failed>>

WatchThreads == {"main", "observer"}

\* where a thread is when it is not in sync_to_pi
Resting(th) == IF th = "main" THEN "sleep" ELSE "idle"

\* `time_since_sync >= self.sync_delay`
DelayPassed == watch.elapsed >= sync_delay

\* a second passes
watch_tick ==
    /\ watch.main # "none"
    /\ watch.elapsed < sync_delay
    /\ watch' = [watch EXCEPT !.elapsed = watch.elapsed + 1]
    /\ UNCHANGED appVars

\* on_any_event, on the observer thread: directories and ignored paths
\* return at once; otherwise pending_sync is set
on_any_event ==
    /\ watch.observer = "idle"
    /\ watch.events < MaxEvents
    /\ \E kind \in {"directory", "ignored", "file"} :
         watch' = IF kind = "file"
                    THEN [watch EXCEPT !.events = watch.events + 1,
                                       !.pending_sync = TRUE,
                                       !.unsynced = TRUE,
                                       !.observer = "marked"]
                    ELSE [watch EXCEPT !.events = watch.events + 1]
    /\ UNCHANGED appVars

\* on_any_event after pending_sync is set: the debounce test, and the call
\* of sync_to_pi up to the start of rsync when it passes
on_any_event_debounce ==
    /\ watch.observer = "marked"
    /\ watch' = IF DelayPassed
                  THEN [watch EXCEPT !.observer = "rsync", !.unsynced = FALSE]
                  ELSE [watch EXCEPT !.observer = "idle"]
    /\ UNCHANGED appVars

\* one pass of the loop of main after time.sleep(1): when pending_sync is
\* set and the delay has passed, sync_to_pi up to the start of rsync
main_loop ==
    /\ watch.main = "sleep"
    /\ watch.pending_sync /\ DelayPassed
    /\ watch' = [watch EXCEPT !.main = "rsync", !.unsynced = FALSE]
    /\ UNCHANGED appVars

\* sync_to_pi: rsync has ended, well or not, and last_sync is set
sync_to_pi_stamp(th) ==
    /\ watch[th] = "rsync"
    /\ \E outcome \in {"ok", "failed", "raises"} :
         watch' = [watch EXCEPT ![th] = "stamped", !.elapsed = 0]
    /\ UNCHANGED appVars

\* sync_to_pi: pending_sync is cleared and the call returns
sync_to_pi_clear(th) ==
    /\ watch[th] = "stamped"
    /\ watch' = [watch EXCEPT ![th] = Resting(th), !.pending_sync = FALSE]
    /\ UNCHANGED appVars

\* main has made the initial sync and started the observer
InitWatch ==
    /\ backend = "none"
    /\ has_cv2 = FALSE
    /\ config = [format |-> "mp4", lm_max_recording_duration |-> LmMaxShort,
                 upload_enabled |-> FALSE]
    /\ recording = FALSE
    /\ lm_state = "idle"
    /\ lm_recording_thread = 0
    /\ lm_temp_file = NoPath
    /\ lm_recording_start_time = 0
    /\ lm_cancel_event = FALSE
    /\ camera_lock = "free"
    /\ join_wait = 0
    /\ worker = [w \in Workers |-> NoWorker]
    /\ cap = [t \in CapThreads |-> NoCap]
    /\ files = {}
    /\ uploads = {}
    /\ result = NoResult
    /\ shotInTime = FALSE
    /\ extract_failed = FALSE
    /\ dev = NoDev
    /\ sensor_crop = NoCrop
    /\ gdrive_meta = {}
    /\ deleted = {}
    /\ watch = [pending_sync |-> FALSE, elapsed |-> 0, main |-> "sleep",
                observer |-> "idle", events |-> 0, unsynced |-> FALSE]

\* -------------------------------------------------------- specifications
LmNext ==
    \/ get_lm_status
    \/ arm_launch_monitor_rejected
    \/ arm_launch_monitor
    \/ shot_detected_rejected
    \/ shot_detected_begin
    \/ shot_detected_finish
    \/ cancel_launch_monitor_idle
    \/ cancel_launch_monitor_begin
    \/ cancel_launch_monitor_finish
    \/ \E w \in Workers : lm_record_start(w)
    \/ \E w \in Workers : lm_record_return(w)
    \/ \E w \in Workers : lm_record_raise(w)
    \/ \E w \in Workers : lm_check_cancel(w)
    \/ \E w \in Workers : lm_timeout_cleanup(w)
    \/ \E w \in Workers : lm_finally(w)
    \/ \E p \in UploadPaths : upload_worker(p)
    \/ Tick

Next ==
    \/ LmNext
    \/ RecordPost
    \/ \E t \in CapThreads : capture_swing_check(t)
    \/ \E t \in CapThreads : capture_swing_record(t)
    \/ \E t \in CapThreads : capture_swing_return(t)
    \/ \E t \in CapThreads : capture_swing_raise(t)
    \/ reconfigure_begin
    \/ reconfigure_end

BackendNext ==
    \/ backend_create
    \/ backend_setup
    \/ backend_setup_raise
    \/ backend_start
    \/ backend_stop
    \/ backend_record_begin
    \/ cancel_event_set
    \/ backend_tick
    \/ backend_record_return
    \/ backend_cleanup

\* one backend object and its callers
SpecBackend == InitBackend /\ [][BackendNext]_vars

CropNext == apply_sensor_crop

\* the sensor-crop computation over the requested sizes
SpecCrop == InitCrop /\ [][CropNext]_vars

\* the whole controller behind the web interface
Spec == Init /\ [][Next]_vars

\* launch-monitor operations and the worker only
SpecLM == Init /\ [][LmNext]_vars

\* Scheduling: time passes; a call that has come out of its join runs on;
\* a worker thread runs its own statements; a record call whose duration
\* is over returns.  Nothing makes a record call return before that.
LmFairness ==
    /\ WF_vars(Tick)
    /\ WF_vars(shot_detected_finish)
    /\ WF_vars(cancel_launch_monitor_finish)
    /\ \A w \in Workers :
          /\ WF_vars(lm_record_start(w))
          /\ WF_vars(RecordOverdue(w) /\ lm_record_return(w))
          /\ WF_vars(lm_check_cancel(w))
          /\ WF_vars(lm_timeout_cleanup(w))
          /\ WF_vars(lm_finally(w))

\* the launch-monitor calls that change state, their worker and time, with
\* uploads disabled
InitJoin ==
    /\ Init
    /\ config.format = "mp4"
    /\ ~config.upload_enabled

JoinNext ==
    \/ arm_launch_monitor_rejected
    \/ arm_launch_monitor
    \/ shot_detected_rejected
    \/ shot_detected_begin
    \/ shot_detected_finish
    \/ cancel_launch_monitor_idle
    \/ cancel_launch_monitor_begin
    \/ cancel_launch_monitor_finish
    \/ \E w \in Workers : lm_record_start(w)
    \/ \E w \in Workers : lm_record_return(w)
    \/ \E w \in Workers : lm_record_raise(w)
    \/ \E w \in Workers : lm_check_cancel(w)
    \/ \E w \in Workers : lm_timeout_cleanup(w)
    \/ \E w \in Workers : lm_finally(w)
    \/ Tick

\* the launch-monitor calls with their threads scheduled
SpecJoin == InitJoin /\ [][JoinNext]_vars /\ LmFairness

\* the calls that produce a recording: record requests, and arm followed by
\* shot_detected, with the shorter maximum duration and uploads disabled
InitProduce ==
    /\ Init
    /\ config.lm_max_recording_duration = LmMaxShort
    /\ ~config.upload_enabled

ProduceNext ==
    \/ RecordPost
    \/ \E t \in CapThreads : capture_swing_check(t)
    \/ \E t \in CapThreads : capture_swing_record(t)
    \/ \E t \in CapThreads : capture_swing_return(t)
    \/ \E t \in CapThreads : capture_swing_raise(t)
    \/ arm_launch_monitor
    \/ shot_detected_begin
    \/ shot_detected_finish
    \/ \E w \in Workers : lm_record_start(w)
    \/ \E w \in Workers : lm_record_return(w)
    \/ \E w \in Workers : lm_record_raise(w)
    \/ \E w \in Workers : lm_check_cancel(w)
    \/ \E w \in Workers : lm_timeout_cleanup(w)
    \/ \E w \in Workers : lm_finally(w)
    \/ Tick

SpecProduce == InitProduce /\ [][ProduceNext]_vars

\* the file watcher: the observer thread, the loop of main and the clock
WatchNext ==
    \/ watch_tick
    \/ on_any_event
    \/ on_any_event_debounce
    \/ main_loop
    \/ \E th \in WatchThreads : sync_to_pi_stamp(th)
    \/ \E th \in WatchThreads : sync_to_pi_clear(th)

\* every thread that can take a step takes one, and time passes
WatchFairness ==
    /\ WF_vars(watch_tick)
    /\ WF_vars(on_any_event_debounce)
    /\ WF_vars(main_loop)
    /\ \A th \in WatchThreads :
         WF_vars(sync_to_pi_stamp(th)) /\ WF_vars(sync_to_pi_clear(th))

SpecWatch == InitWatch /\ [][WatchNext]_vars /\ WatchFairness

\* record requests, the uploads of their files to Google Drive and
\* delete requests for them
DeleteNext ==
    \/ RecordPost
    \/ \E t \in CapThreads : capture_swing_check(t)
    \/ \E t \in CapThreads : capture_swing_record(t)
    \/ \E t \in CapThreads : capture_swing_return(t)
    \/ \E t \in CapThreads : capture_swing_raise(t)
    \/ \E p \in UploadPaths : upload_worker(p)
    \/ \E p \in UploadPaths : upload_to_gdrive_update(p)
    \/ \E p \in UploadPaths : upload_to_gdrive_rewrite(p)
    \/ \E p \in UploadPaths : delete_recording(p)
    \/ \E p \in UploadPaths : delete_recording_missing(p)

SpecDelete == Init /\ [][DeleteNext]_vars

\* record requests only
CaptureNext ==
    \/ RecordPost
    \/ \E t \in CapThreads : capture_swing_check(t)
    \/ \E t \in CapThreads : capture_swing_record(t)
    \/ \E t \in CapThreads : capture_swing_return(t)
    \/ \E t \in CapThreads : capture_swing_raise(t)
    \/ \E p \in UploadPaths : upload_worker(p)

SpecCapture == Init /\ [][CaptureNext]_vars

\* ================================================================ claims
InRecordCaps == {t \in CapThreads : cap[t].pc = "record"}
InRecordWorkers == {w \in Workers : worker[w].pc = "record"}

\* C1: a capture_swing call whose busy test runs while the launch monitor
\* is Armed or Processing, or while the recording flag is set, returns busy
\* and leaves the recording flag and the files on disk as they were.
C1_BusyCaptureHasNoEffect ==
    [][\A t \in CapThreads :
          (/\ cap[t].pc = "check"
           /\ cap'[t].pc # "check"
           /\ (lm_state \in {"armed", "processing"} \/ recording))
          => (/\ result'.op = "capture" /\ result'.status = "busy"
              /\ recording' = recording /\ files' = files)]_vars

\* C2: at most one of the single-shot record calls, the worker's record
\* call and a reconfiguration is operating on the backend at any time.
C2_BackendUsedByOne ==
    Cardinality(InRecordCaps) + Cardinality(InRecordWorkers)
        + (IF camera_lock = "reconfig" THEN 1 ELSE 0) <= 1

\* C3: of two capture_swing calls in progress at the same time only one
\* gets to call Backend.record; the other one returns busy.
C3_OneOfTwoCapturesRecords ==
    \A t, u \in CapThreads :
        (t # u /\ cap[t].pc = "record") => cap[u].pc \notin {"set", "record"}

\* the file a worker's record call writes
WorkerFile(w) == NormalizeOutput(worker[w].path)

\* the workers that have not left Backend.record yet
AliveWorkers == {w \in Workers : worker[w].pc \in {"start", "record"}}

C5_TransientDataIffNotIdle ==
    camera_lock = "free" =>
        /\ (lm_temp_file # NoPath) <=> (lm_state # "idle")
        /\ (lm_recording_start_time # 0) <=> (lm_state # "idle")

\* C6: a shot_detected call that began before the maximum duration had
\* elapsed, with a working trimming tool, no metadata failure and no
\* failure of the worker, returns
\* success, leaves the state Idle and leaves no file written by the worker.
C6_RoundTripSucceeds ==
    (/\ result.op = "shot"
     /\ result.inTime
     /\ result.env = "works"
     /\ result.status # "error_exception"
     /\ worker[lm_recording_thread].pc # "failed")
    => (/\ result.status = "success"
        /\ lm_state = "idle"
        /\ WorkerFile(lm_recording_thread) \notin files)

\* C7: a record call that was still running a second after shot_detected
\* or cancel raised the cancellation signal returns before the maximum
\* duration has elapsed.
C7_CancelEndsRecordEarly ==
    [][\A w \in Workers :
          (/\ worker[w].pc = "record"
           /\ worker'[w].pc = "returned"
           /\ w = lm_recording_thread
           /\ Joining
           /\ lm_cancel_event
           /\ join_wait >= 1)
          => worker[w].elapsed < config.lm_max_recording_duration]_vars

\* C8: when the worker's record call has returned at the maximum duration
\* without a cancellation and no call is in progress, the worker's clean-up (os.remove not failing)
\* leaves the state Idle, the file the worker wrote deleted, and the temp
\* path and arm timestamp cleared.
C8_TimeoutCleansUp ==
    [][\A w \in Workers :
          (/\ worker[w].pc = "timeout"
           /\ worker'[w].pc = "finally"
           /\ worker[w].elapsed >= config.lm_max_recording_duration
           /\ w = lm_recording_thread
           /\ camera_lock = "free")
          => (/\ lm_state' = "idle"
              /\ WorkerFile(w) \notin files'
              /\ lm_temp_file' = NoPath
              /\ lm_recording_start_time' = 0)]_vars

\* C9: when cancel returns from a non-Idle state (os.remove and the worker
\* not failing),
\* the file the worker wrote does not exist and the temp path and arm
\* timestamp are cleared.
C9_CancelRemovesTempFile ==
    (/\ result.op = "cancel"
     /\ result.status = "cancelled"
     /\ result.env # "rm_raises"
     /\ worker[lm_recording_thread].pc # "failed")
    => (/\ WorkerFile(lm_recording_thread) \notin files
        /\ lm_temp_file = NoPath
        /\ lm_recording_start_time = 0)

\* C10: every cancel returns with the state Idle, and a cancel called
\* right after a cancel returned starts no cancellation, returns 'already
\* idle' and changes neither the controller state nor the files.
C10_CancelIdempotent ==
    [][/\ result'.op = "cancel" => lm_state' = "idle"
       /\ result.op = "cancel" => camera_lock' # "cancel"
       /\ (result.op = "cancel" /\ result'.op = "cancel")
            => (/\ result'.status = "already_idle"
                /\ UNCHANGED <<recording, lmVars, camera_lock, worker, cap, files>>)]_vars

\* a cancel found the state idle right after a cancel that ended an armed
\* session
C10_Witness ==
    /\ result.op = "cancel" /\ result.status = "already_idle"
    /\ result.env = "after_cancelled"
    /\ lm_state = "idle"

\* C11: every cancel that began in a non-Idle state returns 'cancelled'
\* with the state Idle, also when the join gave up on the worker or when
\* os.remove raised.
C11_CancelAlwaysReturnsIdle ==
    [][(camera_lock = "cancel" /\ camera_lock' # "cancel")
          => (/\ result'.op = "cancel"
              /\ result'.status = "cancelled"
              /\ lm_state' = "idle")]_vars

\* a cancel returned although the join timed out on a worker that is still
\* recording and the removal of the temp file raised
C11_Witness ==
    /\ result.op = "cancel" /\ result.status = "cancelled"
    /\ result.env = "rm_raises"
    /\ lm_recording_thread # 0
    /\ worker[lm_recording_thread].pc = "record"
    /\ lm_state = "idle"

\* C12: every accepted shot_detected returns with the state Idle, whatever
\* the extraction and the metadata write did and whatever the worker did
\* meanwhile; the state is Processing only while the call is in progress.
C12_ShotAlwaysReturnsIdle ==
    [][/\ (camera_lock = "shot" /\ camera_lock' # "shot")
            => (result'.op = "shot" /\ lm_state' = "idle")
       /\ lm_state' = "processing" => camera_lock' = "shot"]_vars

\* a shot_detected whose metadata write raised returned with the state Idle
C12_Witness ==
    /\ result.op = "shot" /\ result.status = "error_exception"
    /\ lm_state = "idle"
    /\ camera_lock = "free"

\* the workers that are still running although a later arm replaced their
\* session (shot_detected or cancel ended it and stopped waiting for them)
StaleWorkers ==
    {w \in Workers : w # lm_recording_thread
                      /\ worker[w].pc \notin {"none", "done", "failed"}}

\* C13: a step of a worker whose session was ended by shot_detected or
\* cancel, taken during a later arm session, changes neither the state, the
\* temp path nor the arm timestamp and does not delete that session's temp
\* file.
C13_StaleWorkerIsNoOp ==
    [][\A w \in StaleWorkers :
          worker'[w].pc # worker[w].pc
          => (/\ UNCHANGED <<lm_state, lm_temp_file, lm_recording_start_time>>
              /\ Exists(lm_temp_file) => lm_temp_file \in files')]_vars

\* C14: an arm called while the state is Armed or Processing, or while a
\* capture_swing call is inside Backend.record, returns an error and leaves
\* the state, the temp path, the arm timestamp, the cancellation signal and
\* the worker threads as they were.
C14_ArmRejectedWhenBusy ==
    [][(/\ result'.op = "arm"
        /\ (lm_state \in {"armed", "processing"} \/ InRecordCaps # {}))
          => (/\ result'.status \in {"error_state", "error_busy"}
              /\ UNCHANGED <<lmVars, worker>>)]_vars

\* C15: a shot_detected called while the state is not Armed returns the
\* not-armed error, starts no processing and changes neither the
\* controller state, the cancellation signal, the threads nor the files.
C15_ShotRejectedHasNoEffect ==
    [][(/\ camera_lock = "free"
        /\ lm_state # "armed"
        /\ (result'.op = "shot" \/ camera_lock' = "shot"))
          => (/\ result'.op = "shot"
              /\ result'.status = "error_not_armed"
              /\ UNCHANGED <<recording, lmVars, camera_lock, worker, cap,
                             files, uploads>>)]_vars

\* a shot_detected was refused in the Idle state while a worker left over
\* from an ended session was still recording to its file
C15_Witness ==
    /\ result.op = "shot" /\ result.status = "error_not_armed"
    /\ lm_state = "idle"
    /\ \E w \in Workers : worker[w].pc = "record" /\ WorkerFile(w) \in files

\* C16: capture_swing has the recording flag set when it enters
\* Backend.record and clears it when it leaves, whether record returned,
\* record raised or the metadata write raised.
C16_FlagSetThenCleared ==
    [][\A t \in CapThreads :
          /\ (cap[t].pc = "set" /\ cap'[t].pc = "record") => recording'
          /\ (cap[t].pc = "record" /\ cap'[t].pc # "record")
               => (result'.op = "capture" /\ ~recording')]_vars

\* a capture_swing call whose metadata write raised has returned, with the
\* flag cleared
C16_Witness ==
    /\ result.op = "capture" /\ result.env = "meta_raises"
    /\ ~recording
    /\ \E t \in CapThreads : cap[t].pc = "done"

\* C17: when Backend.record raises in capture_swing the call returns its
\* failure value and writes no metadata sidecar.
C17_RecordFailureIsCaught ==
    [][\A t \in CapThreads :
          (/\ cap[t].pc = "record" /\ cap'[t].pc = "done"
           /\ result'.env = "record_raises")
          => (/\ result'.op = "capture" /\ result'.status = "failed"
              /\ with_suffix_json(NormalizeOutput(capture_output_path(t))) \notin files'
              /\ uploads' = uploads)]_vars

\* a capture_swing call whose record call raised has returned failure and
\* its sidecar does not exist
C17_Witness ==
    /\ result.op = "capture" /\ result.status = "failed"
    /\ result.env = "record_raises"
    /\ \E t \in CapThreads :
          /\ cap[t].pc = "done"
          /\ with_suffix_json(NormalizeOutput(capture_output_path(t))) \notin files

\* C18: when Backend.record returned and the metadata write raised,
\* capture_swing still returns the recording's path.
C18_MetadataFailureStillSucceeds ==
    [][\A t \in CapThreads :
          (/\ cap[t].pc = "record" /\ cap'[t].pc = "done"
           /\ result'.env = "meta_raises")
          => (result'.op = "capture" /\ result'.status = "ok")]_vars

\* C19: with upload enabled, a capture_swing or shot_detected call that
\* succeeds returns while the upload thread it started is still running,
\* and the end or failure of an upload changes nothing in the controller.
C19_UploadIsFireAndForget ==
    [][/\ (/\ config.upload_enabled
            /\ result'.op \in {"capture", "shot"}
            /\ result'.status \in {"ok", "success"})
           => uploads' \ uploads # {}
       /\ (uploads' # uploads /\ uploads' \subseteq uploads)
           => UNCHANGED <<recording, lmVars, camera_lock, worker, cap, files>>]_vars

\* a capture_swing call returned its path while the upload of an earlier
\* recording had still not ended
C19_Witness ==
    /\ config.upload_enabled
    /\ result.op = "capture" /\ result.status = "ok"
    /\ Cardinality(uploads) >= 2

\* C20: _extract_clip returns True exactly when the trimming process exits
\* with status zero and then the input file is gone; after a nonzero exit,
\* a timeout or a launch failure it returns False and the input file is
\* still there.
C20_ExtractTrueIffExitZero ==
    [][(camera_lock = "shot" /\ result'.op = "shot")
          => (/\ (result'.status # "error_extract") <=> (result'.extract = "zero")
              /\ result'.extract = "zero" => lm_temp_file \notin files'
              /\ (result'.extract # "zero" /\ Exists(lm_temp_file))
                   => lm_temp_file \in files')]_vars

\* C21: a step of a launch-monitor worker never clears the recording flag
\* while a capture_swing call is inside Backend.record, and a capture_swing
\* call that fails changes neither the launch-monitor state, the temp path
\* nor the arm timestamp.
C21_FailuresAreIsolated ==
    [][/\ \A w \in Workers :
            (/\ worker[w].pc # "none"
             /\ worker'[w].pc # worker[w].pc
             /\ InRecordCaps # {}
             /\ recording)
            => recording'
       /\ (result'.op = "capture" /\ result'.status = "failed")
            => UNCHANGED <<lm_state, lm_temp_file, lm_recording_start_time>>]_vars

\* the launch-monitor temp files on disk
TempFilesOnDisk == {f \in files : f.kind = "temp_lm"}

\* C22: whenever the state is Idle, no launch-monitor call is in progress,
\* every worker has ended normally and no extraction has failed, no
\* launch-monitor temp file is on disk.
C22_NoOrphanedTempFiles ==
    (/\ lm_state = "idle"
     /\ camera_lock = "free"
     /\ ~extract_failed
     /\ \A w \in Workers : worker[w].pc \in {"none", "done"})
    => TempFilesOnDisk = {}

\* C26: get_lm_status changes no controller state, and whenever the
\* launch-monitor state is Idle the recording duration it reports is zero.
C26_StatusIsPureAndZeroWhenIdle ==
    [][result'.op = "status"
         => /\ UNCHANGED <<config, recording, lmVars, camera_lock, join_wait,
                           worker, cap, files, uploads>>
            /\ (lm_state = "idle" => result'.since = 0)]_vars

\* the capture_swing calls that have begun and not returned
ActiveCaps == {t \in CapThreads : cap[t].pc \notin {"none", "done"}}

\* C27: an arm called in Idle while no capture_swing call is active returns
\* 'armed' with the configured lm_max_recording_duration, and on return the
\* state is Armed, the temp path and the arm timestamp are set, the
\* cancellation signal is clear and exactly one worker has been started.
C27_ArmInIdleArms ==
    [][(result'.op = "arm" /\ lm_state = "idle" /\ ActiveCaps = {})
         => /\ result'.status = "armed"
            /\ result'.max_duration = config.lm_max_recording_duration
            /\ lm_state' = "armed"
            /\ lm_temp_file' # NoPath
            /\ lm_recording_start_time' # 0
            /\ ~lm_cancel_event'
            /\ \E w \in Workers :
                  /\ worker[w].pc = "none"
                  /\ worker'[w].pc = "start"
                  /\ lm_recording_thread' = w
                  /\ \A v \in Workers \ {w} : worker'[v] = worker[v]]_vars

\* C28: when _extract_clip returns False inside shot_detected, the call
\* reports the extraction error, the state is Idle with the temp path and the
\* arm timestamp cleared, and no file is removed: the temp file stays on disk.
C28_ExtractFailureLeavesTempFile ==
    [][(result'.op = "shot" /\ result'.status = "error_extract")
         => /\ lm_state' = "idle"
            /\ lm_temp_file' = NoPath
            /\ lm_recording_start_time' = 0
            /\ files \subseteq files']_vars

\* a shot_detected call has reported the extraction error and the temp file
\* its worker recorded is on disk
C28_Witness ==
    /\ result.op = "shot"
    /\ result.status = "error_extract"
    /\ lm_state = "idle"
    /\ lm_temp_file = NoPath
    /\ lm_recording_thread # 0
    /\ WorkerFile(lm_recording_thread) \in files

\* C29: when the worker of the armed session goes through its except
\* clause (Backend.record raised, or os.remove raised on the timeout path),
\* it leaves the controller Idle with the recording flag false and the temp
\* path and the arm timestamp cleared.
C29_WorkerErrorEndsIdle ==
    [][\A w \in Workers :
         (/\ worker[w].pc # "failed"
          /\ worker'[w].pc = "failed"
          /\ w = lm_recording_thread
          /\ lm_state = "armed"
          /\ camera_lock = "free")
         => (/\ lm_state' = "idle"
             /\ ~recording'
             /\ lm_temp_file' = NoPath
             /\ lm_recording_start_time' = 0)]_vars

\* C23: whatever the probes of the hardware candidates do,
\* create_camera_backend returns a backend, and it returns the Demo backend
\* when both hardware probes fail.
C23_SelectionNeverRaises ==
    dev.call = "create" =>
        /\ backend \in Backends
        /\ (~dev.args.force_demo /\ dev.args.pi # "ok" /\ dev.args.cv # "ok")
             => backend = "Demo"

\* C24: a record call whose cancel event is set during the call, before
\* `duration` seconds have passed, returns before `duration` seconds have
\* passed, and its output file is on disk.
C24_RecordReturnsEarlyOnCancel ==
    [][(/\ dev.rec.active
        /\ ~dev'.rec.active
        /\ dev.rec.event = "set"
        /\ dev.rec.cancel_at < dev.rec.duration)
         => (/\ dev.rec.elapsed < dev.rec.duration
             /\ dev.rec.path \in files')]_vars

\* C25: a cleanup that follows setup, start and cleanup performs no
\* operation on the camera or writer handle and changes no backend state.
C25_SecondCleanupIsNoOp ==
    [][(/\ dev.hist = <<"setup", "start", "cleanup">>
        /\ dev'.hist = <<"setup", "start", "cleanup", "cleanup">>)
         => (/\ dev'.ops = <<>>
             /\ dev'.camera = dev.camera
             /\ dev'.started = dev.started
             /\ dev'.writer = dev.writer)]_vars

\* the candidates in priority order, and whether the constructor (for
\* OpenCV: the probe and the constructor) of one completes
Candidates == <<"PiCamera2", "OpenCV", "Demo">>
Constructible(c, pi, cv) ==
    \/ c = "PiCamera2" /\ pi = "ok"
    \/ c = "OpenCV" /\ cv = "ok"
    \/ c = "Demo" /\ DemoBackend_init(cv) = "Demo"

\* C30: create_camera_backend returns the first candidate in the order
\* PiCamera2, OpenCV, Demo that can be constructed, and with force_demo it
\* returns the Demo backend and runs no hardware candidate.
C30_PriorityOrder ==
    dev.call = "create" =>
        IF dev.args.force_demo
          THEN /\ backend = "Demo"
               /\ \A i \in 1..Len(dev.ops) : dev.ops[i] \notin {"PiCamera2", "OpenCV"}
          ELSE \A i \in 1..3 :
                 (/\ Constructible(Candidates[i], dev.args.pi, dev.args.cv)
                  /\ \A j \in 1..(i - 1) :
                        ~Constructible(Candidates[j], dev.args.pi, dev.args.cv))
                 => backend = Candidates[i]

\* the operations that end a camera session and those that open one
ReleaseOps == {"camera.close", "camera.release"}
CreateOps == {"Picamera2()", "VideoCapture(0)"}

\* C31: a setup called on a backend that holds a camera session releases
\* that session before it opens the new one.
C31_SetupReleasesPriorSession ==
    [][(/\ dev'.hist = Append(dev.hist, "setup")
        /\ dev.camera = "open")
         => \A j \in 1..Len(dev'.ops) :
              dev'.ops[j] \in CreateOps
              => \E i \in 1..(j - 1) : dev'.ops[i] \in ReleaseOps]_vars

\* C32: a setup that raises leaves the stored config and the camera
\* session as they were before the call.
C32_FailedSetupChangesNothing ==
    [][dev'.hist = Append(dev.hist, "setup_raises")
         => (/\ dev'.cfg = dev.cfg
             /\ dev'.camera = dev.camera
             /\ dev'.started = dev.started)]_vars

\* the handles and the stored config of the backend
BackendState == <<dev.camera, dev.started, dev.writer, dev.cfg>>

\* C33: a start that follows a start, and a stop that follows a stop,
\* performs no operation on the camera or writer and leaves the backend
\* state unchanged.
C33_RepeatedStartStopIsNoOp ==
    [][\A name \in {"start", "stop"} :
         (/\ dev.call = name
          /\ dev'.hist = Append(dev.hist, name))
         => (/\ dev'.ops = <<>>
             /\ BackendState' = BackendState)]_vars

\* start has been called twice in a row on a PiCamera2 backend whose camera
\* is running
C33_Witness ==
    /\ backend = "PiCamera2"
    /\ Len(dev.hist) >= 3
    /\ dev.hist[Len(dev.hist)] = "start"
    /\ dev.hist[Len(dev.hist) - 1] = "start"
    /\ dev.camera = "open"
    /\ dev.started

\* C34: the crop passed to media-ctl has the requested width and height
\* rounded up to even numbers and even offsets, and lies inside the
\* 1440x1088 sensor area.
C34_CropIsEvenAndContained ==
    sensor_crop.call = "done" =>
        /\ sensor_crop.width % 2 = 0
        /\ sensor_crop.height % 2 = 0
        /\ sensor_crop.width \in {sensor_crop.req_width, sensor_crop.req_width + 1}
        /\ sensor_crop.height \in {sensor_crop.req_height, sensor_crop.req_height + 1}
        /\ sensor_crop.crop_x % 2 = 0
        /\ sensor_crop.crop_y % 2 = 0
        /\ 0 <= sensor_crop.crop_x
        /\ sensor_crop.crop_x + sensor_crop.width <= SENSOR_WIDTH
        /\ 0 <= sensor_crop.crop_y
        /\ sensor_crop.crop_y + sensor_crop.height <= SENSOR_HEIGHT

\* C35: a shot_detected or cancel_launch_monitor call that has begun
\* returns, whatever the worker and the trimming process do.
C35_ShotAndCancelTerminate ==
    (camera_lock \in {"shot", "cancel"}) ~> (camera_lock = "free")

\* a shot_detected call has returned although its worker is still inside
\* Backend.record and the trimming process ran into its timeout
C35_Witness ==
    /\ result.op = "shot"
    /\ result.extract = "timeout"
    /\ camera_lock = "free"
    /\ lm_recording_thread # 0
    /\ worker[lm_recording_thread].pc = "record"

\* the file with the base name of `v` and the extension .json
SidecarOf(v) == [kind |-> v.kind, id |-> v.id, ext |-> "json"]

\* C36: when capture_swing or shot_detected returns success, the video it
\* produced (the normalised path Backend.record returned, or the output of
\* the extraction) is on disk together with a .json file of the same base
\* name.
C36_SidecarHasVideoBaseName ==
    [][/\ \A t \in CapThreads :
            (cap[t].pc = "record" /\ result'.op = "capture" /\ result'.status = "ok"
               /\ cap'[t].pc = "done")
            => LET video == NormalizeOutput(capture_output_path(t))
               IN  video \in files' /\ SidecarOf(video) \in files'
       /\ (result'.op = "shot" /\ result'.status = "success")
            => LET video == SwingPath("swing_lm", lm_recording_thread, config.format)
               IN  video \in files' /\ SidecarOf(video) \in files']_vars

\* with format h264 a capture_swing call has returned success; its video was
\* written as .mp4 and the sidecar is on disk
C36_Witness ==
    /\ result.op = "capture"
    /\ result.status = "ok"
    /\ config.format = "h264"
    /\ \E t \in CapThreads :
          /\ cap[t].pc = "done"
          /\ [kind |-> "swing", id |-> t, ext |-> "mp4"] \in files
          /\ [kind |-> "swing", id |-> t, ext |-> "json"] \in files

\* C37: while a shot_detected call is waiting for its worker or is about to
\* run the extraction, a status request can complete.
C37_StatusNeverBlocked ==
    camera_lock = "shot" => ENABLED get_lm_status

\* C38: the recording flag is true whenever a capture_swing call or a
\* launch-monitor worker is inside Backend.record.
C38_FlagCoversEveryRecord ==
    (InRecordCaps \cup InRecordWorkers # {}) => recording

\* C39: once delete_recording has returned normally for a recording, its
\* video and its sidecar are not on disk and do not come back, whether or
\* not the remote deletion failed and whatever an upload worker for that
\* recording does later; and a delete_recording that raises
\* FileNotFoundError leaves the files as they were.
C39_DeletedStaysDeleted ==
    [][/\ \A p \in deleted' : ~(p \in files') /\ ~(with_suffix_json(p) \in files')
       /\ (result'.op = "delete" /\ result'.status = "raises") => files' = files]_vars

\* C40: every file-change event that passes the ignore filter is followed
\* by a sync that started after it, also when it arrives while a sync is
\* running.
C40_EventIsFollowedBySync == watch.unsynced ~> ~watch.unsynced

====
